---- MODULE Spec2Model ----
(***************************************************************************)
(* ado_lang_inspector.py: the traversal of main() over the projects and    *)
(* repositories of an Azure DevOps tenant, the ADO resource client it      *)
(* calls, the extension classifier, and the two reports it writes.         *)
(*                                                                         *)
(* Strings that the program takes apart (file paths, extensions) are       *)
(* sequences of one-character strings; strings it only compares or copies  *)
(* (language labels, branch references, change kinds, tokens) are strings. *)
(* Python's None is the value NoneV where a string is expected, NonePath   *)
(* where a path is expected and NoneSize where a number is expected.       *)
(***************************************************************************)
EXTENDS Integers, Sequences, FiniteSets, Bags, TLC

(***************************************************************************)
(* Bounds of the model (sizes of what the server answers).                 *)
(***************************************************************************)
MaxProjects == 2
MaxRepos == 2
MaxTenantRepos == 2
MaxCommits == 2
MaxChanges == 2
MaxPages == 2
MaxPageItems == 1
MaxTenantItems == 2
MaxSize == 1
MaxFileBytes == 3
MaxPagedPages == 3
MaxPagedPageItems == 2
MaxPagedItems == 3
MaxServerCommits == 401

NoneV == "<None>"
NonePath == <<"<None>">>
NoneSize == -1

Min(a, b) == IF a <= b THEN a ELSE b

(***************************************************************************)
(* Character-level string helpers.                                         *)
(***************************************************************************)
UpperChars ==
    <<"A","B","C","D","E","F","G","H","I","J","K","L","M",
      "N","O","P","Q","R","S","T","U","V","W","X","Y","Z">>
LowerChars ==
    <<"a","b","c","d","e","f","g","h","i","j","k","l","m",
      "n","o","p","q","r","s","t","u","v","w","x","y","z">>

\* str.lower() on one character
LowerChar(c) ==
    IF \E i \in 1..26 : UpperChars[i] = c
    THEN LowerChars[CHOOSE i \in 1..26 : UpperChars[i] = c]
    ELSE c

\* str.lower()
Lower(s) == [i \in 1..Len(s) |-> LowerChar(s[i])]

\* index of the last occurrence of character c in s, 0 when there is none
LastIndex(s, c) ==
    IF \E i \in 1..Len(s) : s[i] = c
    THEN CHOOSE i \in 1..Len(s) :
            /\ s[i] = c
            /\ \A j \in (i+1)..Len(s) : s[j] # c
    ELSE 0

\* s.rsplit(c, 1)[-1]
AfterLast(s, c) == SubSeq(s, LastIndex(s, c) + 1, Len(s))

ext_from_path(path) ==
    LET name == AfterLast(path, "/")
    IN  IF LastIndex(name, ".") = 0 THEN <<>>
        ELSE Lower(AfterLast(name, "."))

EXT_TO_LANG ==
    { << <<"b","i","c","e","p">>, "Bicep" >>,
      << <<"j","s","o","n">>, "JSON" >>,
      << <<"y","a","m","l">>, "YAML" >>,
      << <<"y","m","l">>, "YAML" >>,
      << <<"t","f">>, "Terraform" >>,
      << <<"p","s","1">>, "PowerShell" >>,
      << <<"p","s","m","1">>, "PowerShell" >>,
      << <<"s","h">>, "Shell" >>,
      << <<"p","y">>, "Python" >>,
      << <<"t","s">>, "TypeScript" >>,
      << <<"t","s","x">>, "TypeScript" >>,
      << <<"j","s">>, "JavaScript" >>,
      << <<"j","s","x">>, "JavaScript" >>,
      << <<"c","s">>, "C#" >>,
      << <<"j","a","v","a">>, "Java" >>,
      << <<"g","o">>, "Go" >>,
      << <<"r","b">>, "Ruby" >>,
      << <<"p","h","p">>, "PHP" >>,
      << <<"r","s">>, "Rust" >>,
      << <<"c","p","p">>, "C++" >>,
      << <<"c","x","x">>, "C++" >>,
      << <<"c","c">>, "C++" >>,
      << <<"c">>, "C" >>,
      << <<"h">>, "C/C++ Header" >>,
      << <<"h","p","p">>, "C++ Header" >>,
      << <<"h","x","x">>, "C++ Header" >>,
      << <<"s","c","a","l","a">>, "Scala" >>,
      << <<"k","t">>, "Kotlin" >>,
      << <<"m","d">>, "Markdown" >>,
      << <<"c","s","v">>, "CSV" >>,
      << <<"x","m","l">>, "XML" >>,
      << <<"i","n","i">>, "INI" >>,
      << <<"t","o","m","l">>, "TOML" >> }

lang_from_ext(ext) ==
    IF \E e \in EXT_TO_LANG : e[1] = ext
    THEN (CHOOSE e \in EXT_TO_LANG : e[1] = ext)[2]
    ELSE "Other"

NON_CODE_LANGS == {"Markdown", "CSV"}

\* the language a path is counted under (lines 233-234)
LangOf(path) == lang_from_ext(ext_from_path(path))

(***************************************************************************)
(* collections.Counter: a sequence of [lang, n] entries in insertion       *)
(* order (a dict keeps insertion order).                                   *)
(***************************************************************************)
EmptyCounter == <<>>

CounterKeys(c) == { c[i].lang : i \in 1..Len(c) }

\* c[l] read: a missing key reads as 0 and is not inserted
CounterGet(c, l) ==
    IF \E i \in 1..Len(c) : c[i].lang = l
    THEN c[CHOOSE i \in 1..Len(c) : c[i].lang = l].n
    ELSE 0

\* a slip: c[l] = k in place of c[l] += k
CounterAdd_Overwrite(c, l, k) ==
    IF \E i \in 1..Len(c) : c[i].lang = l
    THEN [i \in 1..Len(c) |->
            IF c[i].lang = l THEN [lang |-> l, n |-> k] ELSE c[i]]
    ELSE Append(c, [lang |-> l, n |-> k])

\* c[l] += k: a missing key is inserted at the end, also when k = 0
CounterAdd(c, l, k) ==
    IF \E i \in 1..Len(c) : c[i].lang = l
    THEN [i \in 1..Len(c) |->
            IF c[i].lang = l THEN [lang |-> l, n |-> c[i].n + k] ELSE c[i]]
    ELSE Append(c, [lang |-> l, n |-> k])

RECURSIVE CounterSum(_)
\* sum(c.values())
CounterSum(c) == IF c = <<>> THEN 0 ELSE c[1].n + CounterSum(Tail(c))

RECURSIVE InsertDesc_TiesFirst(_, _)
\* a slip: e goes before an entry with the same count (ties come out reversed)
InsertDesc_TiesFirst(sorted, e) ==
    IF sorted = <<>> THEN <<e>>
    ELSE IF sorted[1].n > e.n
         THEN <<sorted[1]>> \o InsertDesc_TiesFirst(Tail(sorted), e)
         ELSE <<e>> \o sorted

RECURSIVE InsertDesc(_, _)
\* e goes after every entry whose count is >= its own (stable)
InsertDesc(sorted, e) ==
    IF sorted = <<>> THEN <<e>>
    ELSE IF sorted[1].n >= e.n
         THEN <<sorted[1]>> \o InsertDesc(Tail(sorted), e)
         ELSE <<e>> \o sorted

RECURSIVE SortDesc(_, _)
SortDesc(acc, c) ==
    IF c = <<>> THEN acc ELSE SortDesc(InsertDesc(acc, c[1]), Tail(c))

\* Counter.most_common(): sorted(items, key=count, reverse=True), stable
most_common(c) == SortDesc(<<>>, c)

\* a slip: the percentage is cut after two decimals, not rounded
Percent_Truncated(b, total) == (10000 * b) \div total

\* round(100.0 * b / total, 2), in hundredths of a percent; a tie goes to
\* the even neighbour
Percent(b, total) ==
    LET q == (10000 * b) \div total
        r == (10000 * b) % total
    IN  IF 2 * r < total THEN q
        ELSE IF 2 * r > total THEN q + 1
        ELSE IF q % 2 = 0 THEN q ELSE q + 1

(***************************************************************************)
(* What the server can answer.                                             *)
(***************************************************************************)
PathPy == <<"a", ".", "p", "y">>
PathMd == <<"d", "/", "R", ".", "M", "D">>
PathNoExt == <<"v", ".", "1", "/", "R">>
Paths == {PathPy, PathMd, PathNoExt}

Sizes == 0..MaxSize

BranchRef == "refs/heads/main"
Branches == {NoneV, BranchRef}

\* default_branch.replace("refs/heads/", "")
BranchName(b) == IF b = BranchRef THEN "main" ELSE b

\* items of a tree listing: blobs with a path and a size, a blob without
\* size, a blob without path, a folder and an object that is not a blob
RawItems ==
    [isFolder : {FALSE}, gitObjectType : {"blob"}, size : Sizes,
     path : {PathPy, PathMd}]
    \cup
    { [isFolder |-> FALSE, gitObjectType |-> "blob", size |-> NoneSize, path |-> PathNoExt],
      [isFolder |-> FALSE, gitObjectType |-> "blob", size |-> MaxSize, path |-> NonePath],
      [isFolder |-> TRUE, gitObjectType |-> "tree", size |-> NoneSize, path |-> PathNoExt],
      [isFolder |-> FALSE, gitObjectType |-> "commit", size |-> NoneSize, path |-> PathPy] }

\* x-ms-continuationtoken: absent, empty, or an opaque string (a token is
\* taken apart by quote, so it is a sequence of characters)
NoneTok == <<"<None>">>
Tok1 == <<"a", "+", "b", "/">>
Tok2 == <<"%", "2", "6", "&", "=">>
Tokens == {NoneTok, <<>>, Tok1}

\* Python truth of an optional token
TruthyTok(t) == t # NoneTok /\ t # <<>>

\* urllib.parse.quote(s): letters, digits, "_.-~" and "/" (the default
\* safe) stay, any other character becomes %XX
AlwaysSafe ==
    {LowerChars[i] : i \in 1..26} \cup {UpperChars[i] : i \in 1..26}
    \cup {"0", "1", "2", "3", "4", "5", "6", "7", "8", "9", "_", ".", "-", "~"}

CodedChars == {"&", "=", "%", "+", " "}

PercentCode(c) ==
    CASE c = "&" -> <<"%", "2", "6">>
      [] c = "=" -> <<"%", "3", "D">>
      [] c = "%" -> <<"%", "2", "5">>
      [] c = "+" -> <<"%", "2", "B">>
      [] c = " " -> <<"%", "2", "0">>

\* a slip: the token goes into the URL as it is
quote_Identity(s) == s

RECURSIVE quote(_)
quote(s) ==
    IF s = <<>> THEN <<>>
    ELSE (IF s[1] \in AlwaysSafe \cup {"/"} THEN <<s[1]>> ELSE PercentCode(s[1]))
         \o quote(Tail(s))

\* lines 67-69: the continuationToken parameter of the request URL (every
\* URL of the client has a "?" already, so the parameter is joined with "&")
ContinuationParam(cont) ==
    IF TruthyTok(cont) THEN [present |-> TRUE, value |-> quote(cont)]
    ELSE [present |-> FALSE, value |-> <<>>]

RECURSIVE FormDecode(_)
\* the server reads a query parameter: it ends at "&", "+" is a space and
\* %XX is the character of that code
FormDecode(q) ==
    IF q = <<>> \/ q[1] = "&" THEN <<>>
    ELSE IF q[1] = "+" THEN <<" ">> \o FormDecode(Tail(q))
    ELSE IF /\ q[1] = "%" /\ Len(q) >= 3
            /\ \E c \in CodedChars : PercentCode(c) = SubSeq(q, 1, 3)
         THEN <<CHOOSE c \in CodedChars : PercentCode(c) = SubSeq(q, 1, 3)>>
              \o FormDecode(SubSeq(q, 4, Len(q)))
    ELSE <<q[1]>> \o FormDecode(Tail(q))

\* the token the server finds in the request, NoneTok without parameter
ServerReads(param) ==
    IF param.present THEN FormDecode(param.value) ELSE NoneTok

\* changeType values as the server sends them, NoneV when the field is absent
RawKinds == {"add", "Edit", "rename", "delete", NoneV}

\* (ch.get("changeType") or "").lower()
KindOf(raw) ==
    CASE raw = NoneV -> ""
      [] raw = "Edit" -> "edit"
      [] OTHER -> raw

\* change records: every kind for two paths, and records without a path
ChangeRecords ==
    [changeType : RawKinds, path : {PathPy, PathMd}]
    \cup [changeType : {"add"}, path : {NonePath, <<>>}]

RECURSIVE SeqsUpTo(_, _)
\* the sequences over S of length 0..n
SeqsUpTo(S, n) ==
    IF n = 0 THEN {<<>>}
    ELSE LET shorter == SeqsUpTo(S, n - 1)
         IN  shorter \cup { Append(s, x) : s \in {t \in shorter : Len(t) = n - 1}, x \in S }

(***************************************************************************)
(* State of one run of main().                                             *)
(***************************************************************************)
VARIABLES
    pc,                       \* where main() is
    args,                     \* parse_args(): the configuration
    since_iso,                \* the resolved threshold, NoneV without filter
    out_dir,                  \* TRUE once ensure_out created the directory
    per_repo_rows,
    tenant_totals,
    tenant_totals_code_only,
    projects, pidx,           \* the project list and the loop position in it
    repos, ridx,              \* the repository list of projects[pidx]
    commit_ids, cidx,         \* list_changed_paths_for_commits: its loop
    changed, created,         \* list_changed_paths_for_commits: its sets
    recent_paths,             \* [none, set]: None, or the filter set
    lang_bytes, total_bytes,
    continuation,             \* paged: the token sent with the last request
    header,                   \* paged: x-ms-continuationtoken of the last response
    page,                     \* paged: items of the last response not yet yielded
    fetched,                  \* paged: requests answered in the current listing
    result,                   \* what main() returned, NoResult before it does
    exc,                      \* the exception that left main(), NoExc if none
    repo_csv, tenant_csv,     \* the written reports, NotWritten before
    console,                  \* the printed code-only summary
    nrepos,                   \* history: repositories enumerated so far
    nitems,                   \* history: tree entries received so far
    requests,                 \* history: <<project, repository, kind>> of every request
    streamed,                 \* history: items list_files yielded for the current repository
    seen,                     \* history: change records received (recorded by SpecChanges only)
    wire,                     \* history: requests and responses of paged (recorded by SpecPaged only)
    skip,                     \* list_commits: the offset of the next request (stepped by SpecCommits only)
    server_commits,           \* the commits the server holds for the listing in progress (SpecCommits only)
    snap,                     \* history: rows and tallies when the current repository was started
    hist                      \* history: the ended iterations of the loop of line 197

vars ==
    << pc, args, since_iso, out_dir, per_repo_rows, tenant_totals,
       tenant_totals_code_only, projects, pidx, repos, ridx, commit_ids, cidx,
       changed, created, recent_paths, lang_bytes, total_bytes, continuation,
       header, page, fetched, result, exc, repo_csv, tenant_csv, console,
       nrepos, nitems, requests, streamed, seen, wire, skip, server_commits, snap, hist >>

NoResult == -1
NotWritten == << [written |-> FALSE] >>
NoExc == [type |-> NoneV, at |-> NoneV]
NoSnap == [rows |-> <<>>, all |-> <<>>, code |-> <<>>]
NoFilter == [none |-> TRUE, set |-> {}]
NoWire == [sent |-> <<>>, got |-> <<>>, pages |-> <<>>, out |-> <<>>]
FilterOf(S) == [none |-> FALSE, set |-> S]

OrgUrl == "https://dev.azure.com/org"
SinceDate == "2024-01-01"
\* (utcnow() - timedelta(days=N)).strftime("%Y-%m-%d")
ComputedDate == "<utcnow-N>"
SinceDays == 30

\* Python truth of an optional string
Truthy(s) == s # NoneV /\ s # ""

\* the configurations parse_args can return: a missing URL or credential;
\* no threshold, with and without --exclude-non-code; --since-iso, with and
\* without --created-only; and --since-days
ArgsSet ==
    { a \in [org_url : {NoneV, OrgUrl}, pat : {NoneV, "", "pat"},
             since_iso : {NoneV, SinceDate}, since_days : {0},
             created_only : BOOLEAN, exclude_non_code : BOOLEAN] :
        /\ a.created_only => a.since_iso # NoneV
        /\ a.exclude_non_code => a.since_iso = NoneV
        /\ (~ Truthy(a.org_url) \/ ~ Truthy(a.pat)) =>
              (a.since_iso = NoneV /\ ~ a.exclude_non_code) }
    \cup
    { [org_url |-> OrgUrl, pat |-> "pat", since_iso |-> NoneV,
       since_days |-> SinceDays, created_only |-> FALSE,
       exclude_non_code |-> FALSE] }

InitLocals ==
    /\ since_iso = NoneV
    /\ out_dir = FALSE
    /\ per_repo_rows = <<>>
    /\ tenant_totals = EmptyCounter
    /\ tenant_totals_code_only = EmptyCounter
    /\ projects = <<>> /\ pidx = 0
    /\ repos = <<>> /\ ridx = 0
    /\ commit_ids = <<>> /\ cidx = 0
    /\ changed = {} /\ created = {}
    /\ recent_paths = NoFilter
    /\ lang_bytes = EmptyCounter /\ total_bytes = 0
    /\ continuation = NoneTok /\ header = NoneTok /\ page = <<>> /\ fetched = 0
    /\ result = NoResult /\ exc = NoExc
    /\ repo_csv = NotWritten /\ tenant_csv = NotWritten /\ console = NotWritten
    /\ nrepos = 0 /\ nitems = 0 /\ requests = {} /\ streamed = EmptyBag /\ seen = {}
    /\ wire = NoWire
    /\ skip = 0 /\ server_commits = <<>>
    /\ snap = NoSnap /\ hist = <<>>

Init ==
    /\ pc = "start"
    /\ args \in ArgsSet
    /\ InitLocals

(***************************************************************************)
(* main(), lines 167-186.                                                  *)
(***************************************************************************)
\* a slip: `and` in place of `or`
ConfigMissing_Both == ~ Truthy(args.org_url) /\ ~ Truthy(args.pat)

\* line 169
ConfigMissing == ~ Truthy(args.org_url) \/ ~ Truthy(args.pat)

ResolveSince ==
    IF Truthy(args.since_iso) THEN args.since_iso
    ELSE IF args.since_days # 0 /\ args.since_days > 0 THEN ComputedDate
    ELSE NoneV

StartConfigError ==
    /\ pc = "start"
    /\ ConfigMissing
    /\ result' = 2
    /\ pc' = "returned"
    /\ UNCHANGED << args, since_iso, out_dir, per_repo_rows, tenant_totals,
                    tenant_totals_code_only, projects, pidx, repos, ridx,
                    commit_ids, cidx, changed, created, recent_paths,
                    lang_bytes, total_bytes, continuation, header, page,
                    fetched, exc, repo_csv, tenant_csv, console, nrepos,
                    requests, streamed, seen, wire, skip, server_commits,
                    snap, hist, nitems >>

Start ==
    /\ pc = "start"
    /\ ~ ConfigMissing
    /\ since_iso' = ResolveSince
    /\ out_dir' = TRUE
    /\ per_repo_rows' = <<>>
    /\ tenant_totals' = EmptyCounter
    /\ tenant_totals_code_only' = EmptyCounter
    /\ pc' = "list_projects"
    /\ UNCHANGED << args, projects, pidx, repos, ridx, commit_ids, cidx,
                    changed, created, recent_paths, lang_bytes, total_bytes,
                    continuation, header, page, fetched, result, exc,
                    repo_csv, tenant_csv, console, nrepos, requests,
                    streamed, seen, wire, skip, server_commits,
                    snap, hist, nitems >>

\* an uncaught exception leaves main()
Raise(type, at) ==
    /\ pc' = "raised"
    /\ exc' = [type |-> type, at |-> at]

(***************************************************************************)
(* Lines 188-197: the two eager listings, list(self.paged(url)).           *)
(***************************************************************************)
ListProjectsOk ==
    /\ pc = "list_projects"
    /\ \E n \in 0..MaxProjects :
        /\ projects' = [i \in 1..n |-> i]
        /\ IF n = 0
           THEN pc' = "write" /\ pidx' = pidx
           ELSE pc' = "list_repos" /\ pidx' = 1
    /\ requests' = requests \cup {<<0, 0, "projects">>}
    /\ UNCHANGED << args, since_iso, out_dir, per_repo_rows, tenant_totals,
                    tenant_totals_code_only, repos, ridx, commit_ids, cidx,
                    changed, created, recent_paths, lang_bytes, total_bytes,
                    continuation, header, page, fetched, result, exc,
                    repo_csv, tenant_csv, console, nrepos, streamed, seen, wire, skip, server_commits,
                    snap, hist, nitems >>

ListProjectsFail ==
    /\ pc = "list_projects"
    /\ Raise("HTTPError", "list_projects")
    /\ requests' = requests \cup {<<0, 0, "projects">>}
    /\ UNCHANGED << args, since_iso, out_dir, per_repo_rows, tenant_totals,
                    tenant_totals_code_only, projects, pidx, repos, ridx,
                    commit_ids, cidx, changed, created, recent_paths,
                    lang_bytes, total_bytes, continuation, header, page,
                    fetched, result, repo_csv, tenant_csv, console, nrepos,
                    streamed, seen, wire, skip, server_commits,
                    snap, hist, nitems >>

\* history: how many items list_files yielded, and how many of them line 229
\* let through
Yielded(b) == BagCardinality(b)
CountedIn(b, rp) ==
    BagCardinality([fi \in {x \in BagToSet(b) : rp.none \/ x.path \in rp.set}
                      |-> CopiesIn(fi, b)])

\* history: the iteration for repository ridx of project pidx ends; the
\* entry keeps how it ended, for a failed listing whether a page had been
\* received before (later), whether list_files yielded an item and whether
\* an item was counted
Ended(outcome, later) ==
    /\ hist' = Append(hist,
                 [project |-> projects[pidx], repository |-> repos[ridx].name,
                  outcome |-> outcome, later |-> later,
                  listed |-> Yielded(streamed) > 0,
                  matched |-> CountedIn(streamed, recent_paths) > 0])
    /\ snap' = NoSnap

\* the generators of line 228 are dropped: their locals are gone
DropStream ==
    /\ continuation' = NoneTok
    /\ header' = NoneTok
    /\ page' = <<>>
    /\ fetched' = 0
    /\ streamed' = EmptyBag

\* The locals of the loop body are dead once the body is left: each is
\* assigned again (lines 213, 215-216, 224-225) before it is read.  They
\* take their initial values here, so that states that differ only in dead
\* values are one state.
DeadLocals ==
    /\ recent_paths' = NoFilter
    /\ commit_ids' = <<>>
    /\ lang_bytes' = EmptyCounter
    /\ total_bytes' = 0

\* the loops of lines 191 and 197 move on: the next repository of the
\* project, else the next project, else the code after the loops
NextRepo ==
    IF ridx < Len(repos)
    THEN pc' = "repo" /\ ridx' = ridx + 1 /\ pidx' = pidx
    ELSE IF pidx < Len(projects)
         THEN pc' = "list_repos" /\ pidx' = pidx + 1 /\ ridx' = ridx
         ELSE pc' = "write" /\ pidx' = pidx /\ ridx' = ridx

ListReposOk ==
    /\ pc = "list_repos"
    /\ \E bs \in SeqsUpTo(Branches, Min(MaxRepos, MaxTenantRepos - nrepos)) :
        /\ repos' = [j \in 1..Len(bs) |-> [name |-> j, defaultBranch |-> bs[j]]]
        /\ nrepos' = nrepos + Len(bs)
        /\ IF Len(bs) > 0
           THEN pc' = "repo" /\ ridx' = 1 /\ pidx' = pidx
           ELSE IF pidx < Len(projects)
                THEN pc' = "list_repos" /\ pidx' = pidx + 1 /\ ridx' = ridx
                ELSE pc' = "write" /\ pidx' = pidx /\ ridx' = ridx
    /\ requests' = requests \cup {<<projects[pidx], 0, "repos">>}
    /\ UNCHANGED << args, since_iso, out_dir, per_repo_rows, tenant_totals,
                    tenant_totals_code_only, projects, commit_ids, cidx,
                    changed, created, recent_paths, lang_bytes, total_bytes,
                    continuation, header, page, fetched, result, exc,
                    repo_csv, tenant_csv, console, streamed, seen, wire, skip, server_commits,
                    snap, hist, nitems >>

\* a slip: the rows collected so far are written when the listing fails
ListReposFail_Flushes ==
    /\ pc = "list_repos"
    /\ Raise("HTTPError", "list_repos")
    /\ repo_csv' = per_repo_rows
    /\ requests' = requests \cup {<<projects[pidx], 0, "repos">>}
    /\ UNCHANGED << args, since_iso, out_dir, per_repo_rows, tenant_totals,
                    tenant_totals_code_only, projects, pidx, repos, ridx,
                    commit_ids, cidx, changed, created, recent_paths,
                    lang_bytes, total_bytes, continuation, header, page,
                    fetched, result, tenant_csv, console, nrepos,
                    streamed, seen, wire, skip, server_commits,
                    snap, hist, nitems >>

\* line 194, not answered: raise_for_status leaves main()
ListReposFail ==
    /\ pc = "list_repos"
    /\ Raise("HTTPError", "list_repos")
    /\ requests' = requests \cup {<<projects[pidx], 0, "repos">>}
    /\ UNCHANGED << args, since_iso, out_dir, per_repo_rows, tenant_totals,
                    tenant_totals_code_only, projects, pidx, repos, ridx,
                    commit_ids, cidx, changed, created, recent_paths,
                    lang_bytes, total_bytes, continuation, header, page,
                    fetched, result, repo_csv, tenant_csv, console, nrepos,
                    streamed, seen, wire, skip, server_commits,
                    snap, hist, nitems >>

(***************************************************************************)
(* Lines 197-225: one repository, up to the start of its file listing.     *)
(***************************************************************************)
Row(proj, repo, branch, lang, b) ==
    [project |-> proj, repository |-> repo, default_branch |-> branch,
     language |-> lang, bytes |-> b]

CurProject == projects[pidx]
CurRepo == repos[ridx]

\* lines 224-225, and the call of list_files at line 228 (a generator: no
\* request is sent before the first item is asked for)
EnterFiles ==
    /\ lang_bytes' = EmptyCounter
    /\ total_bytes' = 0
    /\ streamed' = EmptyBag
    /\ continuation' = NoneTok
    /\ header' = NoneTok
    /\ page' = <<>>
    /\ fetched' = 0
    /\ pc' = "files"

\* a slip: the placeholder is folded into the tenant tally like a language row
RepoNoBranch_Folds ==
    /\ pc = "repo"
    /\ ~ Truthy(CurRepo.defaultBranch)
    /\ per_repo_rows' =
         Append(per_repo_rows, Row(CurProject, CurRepo.name, "", "", 0))
    /\ NextRepo
    /\ tenant_totals' = CounterAdd(tenant_totals, "", 0)
    /\ hist' = Append(hist,
                 [project |-> CurProject, repository |-> CurRepo.name,
                  outcome |-> "nobranch", later |-> FALSE, listed |-> FALSE,
                  matched |-> FALSE])
    /\ UNCHANGED << args, since_iso, out_dir,
                    tenant_totals_code_only, projects, repos, commit_ids,
                    cidx, changed, created, recent_paths, lang_bytes,
                    total_bytes, continuation, header, page, fetched, result,
                    exc, repo_csv, tenant_csv, console, nrepos, requests,
                    streamed, seen, wire, skip, server_commits,
                    snap, nitems >>

\* lines 199-208
RepoNoBranch ==
    /\ pc = "repo"
    /\ ~ Truthy(CurRepo.defaultBranch)
    /\ per_repo_rows' =
         Append(per_repo_rows, Row(CurProject, CurRepo.name, "", "", 0))
    /\ NextRepo
    /\ hist' = Append(hist,
                 [project |-> CurProject, repository |-> CurRepo.name,
                  outcome |-> "nobranch", later |-> FALSE, listed |-> FALSE,
                  matched |-> FALSE])
    /\ UNCHANGED << args, since_iso, out_dir, tenant_totals,
                    tenant_totals_code_only, projects, repos, commit_ids,
                    cidx, changed, created, recent_paths, lang_bytes,
                    total_bytes, continuation, header, page, fetched, result,
                    exc, repo_csv, tenant_csv, console, nrepos, requests,
                    streamed, seen, wire, skip, server_commits,
                    snap, nitems >>

\* a slip: the commits are listed whether or not a threshold is set
RepoBranch_AlwaysFilters ==
    /\ pc = "repo"
    /\ Truthy(CurRepo.defaultBranch)
    /\ recent_paths' = NoFilter
    /\ snap' = [rows |-> per_repo_rows, all |-> tenant_totals,
                code |-> tenant_totals_code_only]
    /\ pc' = "commits"
    /\ UNCHANGED << lang_bytes, total_bytes, streamed, continuation,
                    header, page, fetched >>
    /\ UNCHANGED << args, since_iso, out_dir, per_repo_rows, tenant_totals,
                    tenant_totals_code_only, projects, pidx, repos, ridx,
                    commit_ids, cidx, changed, created, result, exc,
                    repo_csv, tenant_csv, console, nrepos, requests, seen,
                    wire, skip, server_commits, hist, nitems >>

\* lines 210-214 (and 224-228 when no threshold is set)
RepoBranch ==
    /\ pc = "repo"
    /\ Truthy(CurRepo.defaultBranch)
    /\ recent_paths' = NoFilter
    /\ snap' = [rows |-> per_repo_rows, all |-> tenant_totals,
                code |-> tenant_totals_code_only]
    /\ IF Truthy(since_iso)
       THEN /\ pc' = "commits"
            /\ UNCHANGED << lang_bytes, total_bytes, streamed, continuation,
                            header, page, fetched >>
       ELSE EnterFiles
    /\ UNCHANGED << args, since_iso, out_dir, per_repo_rows, tenant_totals,
                    tenant_totals_code_only, projects, pidx, repos, ridx,
                    commit_ids, cidx, changed, created, result, exc,
                    repo_csv, tenant_csv, console, nrepos, requests, seen, wire, skip, server_commits,
                    hist, nitems >>

(***************************************************************************)
(* list_commits, lines 101-117: pages of CommitsTop commits at offsets     *)
(* 0, CommitsTop, ...; srv is the list of matching commits on the server.  *)
(***************************************************************************)
CommitsTop == 200

\* the answer to $top=top&$skip=offset
CommitsBatch(srv, top, offset) ==
    SubSeq(srv, offset + 1, Min(offset + top, Len(srv)))

RECURSIVE ListCommitsFrom(_, _, _)
ListCommitsFrom(srv, offset, commits) ==
    LET batch == CommitsBatch(srv, CommitsTop, offset)
    IN  IF batch = <<>> THEN commits
        ELSE IF Len(batch) < CommitsTop THEN commits \o batch
        ELSE ListCommitsFrom(srv, offset + CommitsTop, commits \o batch)

list_commits(srv) == ListCommitsFrom(srv, 0, <<>>)

\* a slip: no commit leaves recent_paths None
ListCommitsOk_NoneOnEmpty ==
    /\ pc = "commits"
    /\ \E n \in 0..MaxCommits :
        LET ids == list_commits([i \in 1..n |-> i])
        IN  /\ commit_ids' = ids
            /\ IF ids # <<>>
               THEN /\ pc' = "changes"
                    /\ cidx' = 1
                    /\ changed' = {}
                    /\ created' = {}
                    /\ UNCHANGED << recent_paths, lang_bytes, total_bytes,
                                    streamed, continuation, header, page,
                                    fetched >>
               ELSE /\ recent_paths' = NoFilter
                    /\ EnterFiles
                    /\ UNCHANGED << cidx, changed, created >>
    /\ requests' = requests \cup {<<CurProject, CurRepo.name, "commits">>}
    /\ UNCHANGED << args, since_iso, out_dir, per_repo_rows, tenant_totals,
                    tenant_totals_code_only, projects, pidx, repos, ridx,
                    result, exc, repo_csv, tenant_csv, console, nrepos, seen, wire, skip, server_commits,
                    snap, hist, nitems >>

\* lines 215-222, the listing answered
ListCommitsOk ==
    /\ pc = "commits"
    /\ \E n \in 0..MaxCommits :
        LET ids == list_commits([i \in 1..n |-> i])
        IN  /\ commit_ids' = ids
            /\ IF ids # <<>>
               THEN /\ pc' = "changes"
                    /\ cidx' = 1
                    /\ changed' = {}
                    /\ created' = {}
                    /\ UNCHANGED << recent_paths, lang_bytes, total_bytes,
                                    streamed, continuation, header, page,
                                    fetched >>
               ELSE /\ recent_paths' = FilterOf({})
                    /\ EnterFiles
                    /\ UNCHANGED << cidx, changed, created >>
    /\ requests' = requests \cup {<<CurProject, CurRepo.name, "commits">>}
    /\ UNCHANGED << args, since_iso, out_dir, per_repo_rows, tenant_totals,
                    tenant_totals_code_only, projects, pidx, repos, ridx,
                    result, exc, repo_csv, tenant_csv, console, nrepos, seen, wire, skip, server_commits,
                    snap, hist, nitems >>

\* line 215 is outside the try of line 227: raise_for_status leaves main()
ListCommitsFail ==
    /\ pc = "commits"
    /\ Raise("HTTPError", "list_commits")
    /\ requests' = requests \cup {<<CurProject, CurRepo.name, "commits">>}
    /\ UNCHANGED << args, since_iso, out_dir, per_repo_rows, tenant_totals,
                    tenant_totals_code_only, projects, pidx, repos, ridx,
                    commit_ids, cidx, changed, created, recent_paths,
                    lang_bytes, total_bytes, continuation, header, page,
                    fetched, result, repo_csv, tenant_csv, console, nrepos,
                    streamed, seen, wire, skip, server_commits,
                    snap, hist, nitems >>

(***************************************************************************)
(* list_changed_paths_for_commits, lines 119-135: one request per commit.  *)
(***************************************************************************)
\* a slip: an edit or rename takes the path out of created (last write wins)
ApplyChange_LastWins(sets, ch) ==
    LET ctype == KindOf(ch.changeType)
        path == ch.path
    IN  IF path = NonePath \/ path = <<>> THEN sets
        ELSE IF ctype = "add"
             THEN [changed |-> sets.changed \cup {path},
                   created |-> sets.created \cup {path}]
        ELSE IF ctype \in {"edit", "rename"}
             THEN [changed |-> sets.changed \cup {path},
                   created |-> sets.created \ {path}]
        ELSE sets

\* lines 126-134 for one change record; sets is [changed, created]
ApplyChange(sets, ch) ==
    LET ctype == KindOf(ch.changeType)
        path == ch.path
    IN  IF path = NonePath \/ path = <<>> THEN sets
        ELSE IF ctype = "add"
             THEN [changed |-> sets.changed \cup {path},
                   created |-> sets.created \cup {path}]
        ELSE IF ctype \in {"edit", "rename"}
             THEN [changed |-> sets.changed \cup {path}, created |-> sets.created]
        ELSE sets

RECURSIVE ApplyChanges(_, _)
\* the loop of line 125 over one response
ApplyChanges(sets, resp) ==
    IF resp = <<>> THEN sets
    ELSE ApplyChanges(ApplyChange(sets, resp[1]), Tail(resp))

\* line 135
ChangedPathsResult(sets, created_only) ==
    IF created_only THEN sets.created ELSE sets.changed

ChangeResponses == SeqsUpTo(ChangeRecords, MaxChanges)

\* the request of line 124 answered with resp, and the return at line 135
\* after the last commit (the locals changed, created and the loop position
\* end with the call, and commit_ids is not read again)
ChangesStep(resp) ==
    /\ pc = "changes"
    /\ LET sets == ApplyChanges([changed |-> changed, created |-> created], resp)
       IN  IF cidx < Len(commit_ids)
           THEN /\ changed' = sets.changed
                /\ created' = sets.created
                /\ cidx' = cidx + 1
                /\ UNCHANGED << pc, commit_ids, recent_paths, lang_bytes, total_bytes,
                                streamed, continuation, header, page,
                                fetched >>
           ELSE /\ changed' = {}
                /\ created' = {}
                /\ cidx' = 0
                /\ commit_ids' = <<>>
                /\ recent_paths' =
                     FilterOf(ChangedPathsResult(sets, args.created_only))
                /\ EnterFiles
    /\ UNCHANGED << args, since_iso, out_dir, per_repo_rows, tenant_totals,
                    tenant_totals_code_only, projects, pidx, repos, ridx,
                    result, exc, repo_csv, tenant_csv, console, nrepos,
                    snap, hist, nitems >>

ChangesFetchOk ==
    /\ \E resp \in ChangeResponses : ChangesStep(resp)
    /\ requests' = requests \cup {<<CurProject, CurRepo.name, "changes">>}
    /\ UNCHANGED << seen, wire, skip, server_commits >>

\* line 218 is outside the try of line 227
ChangesFetchFail ==
    /\ pc = "changes"
    /\ Raise("HTTPError", "list_changed_paths_for_commits")
    /\ requests' = requests \cup {<<CurProject, CurRepo.name, "changes">>}
    /\ UNCHANGED << args, since_iso, out_dir, per_repo_rows, tenant_totals,
                    tenant_totals_code_only, projects, pidx, repos, ridx,
                    commit_ids, cidx, changed, created, recent_paths,
                    lang_bytes, total_bytes, continuation, header, page,
                    fetched, result, repo_csv, tenant_csv, console, nrepos,
                    streamed, seen, wire, skip, server_commits,
                    snap, hist, nitems >>

(***************************************************************************)
(* Lines 227-238: the file stream.  list_files (88-98) filters the items   *)
(* of paged (64-76); both are generators driven by the for of line 228.    *)
(***************************************************************************)
\* line 94 and line 97: what list_files lets through
IsFile(item) ==
    /\ ~ item.isFolder
    /\ item.gitObjectType = "blob"
    /\ item.path # NonePath

\* lines 95-98: int(item.get("size", 0) or 0)
FileItem(item) ==
    [path |-> item.path, size |-> IF item.size = NoneSize THEN 0 ELSE item.size]

\* a slip: the filter set is not consulted
Counted_IgnoresFilter(rp, fi) == TRUE

\* line 229, negated: the item is counted
Counted(rp, fi) == rp.none \/ fi.path \in rp.set

\* a slip: the next page is fetched while items of the last are pending
WantsPage_Eager ==
    /\ pc = "files"
    /\ fetched = 0 \/ TruthyTok(header)

\* paged is about to send a request: the first one, or the one after a
\* page that came with a token (lines 66-70, 74-76)
WantsPage ==
    /\ pc = "files"
    /\ page = <<>>
    /\ fetched = 0 \/ TruthyTok(header)

\* paged ends: the last page is used up and came without a token
StreamEnded ==
    /\ pc = "files"
    /\ page = <<>>
    /\ fetched > 0
    /\ ~ TruthyTok(header)

\* lines 67-74: the request of paged answered with items and the token tok
FilesFetchStep(items, tok) ==
    /\ WantsPage
    /\ page' = items
    /\ header' = tok
    /\ nitems' = nitems + Len(items)
    /\ continuation' = IF fetched = 0 THEN NoneTok ELSE header
    /\ fetched' = fetched + 1
    /\ requests' = requests \cup {<<CurProject, CurRepo.name, "items">>}
    /\ UNCHANGED << pc, args, since_iso, out_dir, per_repo_rows,
                    tenant_totals, tenant_totals_code_only, projects, pidx,
                    repos, ridx, commit_ids, cidx, changed, created,
                    recent_paths, lang_bytes, total_bytes, result, exc,
                    repo_csv, tenant_csv, console, nrepos, streamed, seen,
                    snap, hist >>

FilesFetchOk ==
    /\ \E items \in SeqsUpTo(RawItems, Min(MaxPageItems, MaxTenantItems - nitems)),
          tok \in Tokens :
        /\ fetched + 1 >= MaxPages => ~ TruthyTok(tok)
        /\ FilesFetchStep(items, tok)
    /\ UNCHANGED << wire, skip, server_commits >>

\* a slip: a failed listing leaves the placeholder row of an empty repository
FilesFetchFail_Placeholder ==
    /\ WantsPage
    /\ requests' = requests \cup {<<CurProject, CurRepo.name, "items">>}
    /\ per_repo_rows' =
         Append(per_repo_rows,
                Row(CurProject, CurRepo.name, CurRepo.defaultBranch, "", 0))
    /\ DropStream
    /\ DeadLocals
    /\ NextRepo
    /\ Ended("failed", fetched > 0)
    /\ UNCHANGED << args, since_iso, out_dir, tenant_totals,
                    tenant_totals_code_only, projects, repos, cidx, changed,
                    created, result, exc, repo_csv, tenant_csv, console,
                    nrepos, seen, wire, skip, server_commits, nitems >>

\* raise_for_status at line 61, caught at line 236: continue
FilesFetchFail ==
    /\ WantsPage
    /\ requests' = requests \cup {<<CurProject, CurRepo.name, "items">>}
    /\ DropStream
    /\ DeadLocals
    /\ NextRepo
    /\ Ended("failed", fetched > 0)
    /\ UNCHANGED << args, since_iso, out_dir, per_repo_rows, tenant_totals,
                    tenant_totals_code_only, projects, repos, cidx, changed,
                    created, result, exc, repo_csv, tenant_csv, console,
                    nrepos, seen, wire, skip, server_commits, nitems >>

\* lines 231-235
CountItem(fi) ==
    /\ total_bytes' = total_bytes + fi.size
    /\ lang_bytes' = CounterAdd(lang_bytes, LangOf(fi.path), fi.size)

\* one item of the page: dropped by list_files, or yielded and then
\* skipped (line 230) or counted
FilesItemStep ==
    /\ pc = "files"
    /\ page # <<>>
    /\ page' = Tail(page)
    /\ LET item == Head(page)
       IN  IF IsFile(item)
           THEN /\ streamed' = streamed (+) SetToBag({FileItem(item)})
                /\ IF Counted(recent_paths, FileItem(item))
                   THEN CountItem(FileItem(item))
                   ELSE UNCHANGED << total_bytes, lang_bytes >>
           ELSE UNCHANGED << streamed, total_bytes, lang_bytes >>
    /\ UNCHANGED << pc, args, since_iso, out_dir, per_repo_rows,
                    tenant_totals, tenant_totals_code_only, projects, pidx,
                    repos, ridx, commit_ids, cidx, changed, created,
                    recent_paths, continuation, header, fetched, result, exc,
                    repo_csv, tenant_csv, console, nrepos, requests, seen,
                    snap, hist, nitems >>

FilesItem == FilesItemStep /\ UNCHANGED << wire, skip, server_commits >>

(***************************************************************************)
(* Lines 240-259: the rows of the repository and the tenant tallies.       *)
(***************************************************************************)
\* line 258, second operand: lang not in {{"Markdown","CSV"}}.  The set
\* display holds a set, which is unhashable: evaluating it raises TypeError
\* whatever lang is.  The outcome of a test is "True", "False" or the
\* exception it raises.
NotInNonCode(lang) == "TypeError"

\* line 258: (not args.exclude_non_code) or (lang not in ...); `or` does not
\* evaluate its second operand when the first is true
FoldsIntoCodeOnly(exclude_non_code, lang) ==
    IF ~ exclude_non_code THEN "True" ELSE NotInNonCode(lang)

RECURSIVE EmitLoop(_, _, _, _)
\* the loop of lines 249-259 over the entries of lang_bytes; st is
\* [rows, all, code, raised]
EmitLoop(entries, proj, repo, st) ==
    IF entries = <<>> THEN st
    ELSE LET e == entries[1]
             rows == Append(st.rows,
                            Row(proj, repo.name, repo.defaultBranch, e.lang, e.n))
             all == CounterAdd(st.all, e.lang, e.n)
             test == FoldsIntoCodeOnly(args.exclude_non_code, e.lang)
         IN  IF test = "TypeError"
             THEN [rows |-> rows, all |-> all, code |-> st.code, raised |-> TRUE]
             ELSE EmitLoop(Tail(entries), proj, repo,
                           [rows |-> rows, all |-> all,
                            code |-> IF test = "True" THEN CounterAdd(st.code, e.lang, e.n)
                                     ELSE st.code,
                            raised |-> FALSE])

EmitResult ==
    EmitLoop(lang_bytes, CurProject, CurRepo,
             [rows |-> per_repo_rows, all |-> tenant_totals,
              code |-> tenant_totals_code_only, raised |-> FALSE])

\* a slip: the placeholder of a repository with a branch has a blank branch
EmitPlaceholder_BlankBranch ==
    /\ StreamEnded
    /\ total_bytes = 0
    /\ per_repo_rows' =
         Append(per_repo_rows, Row(CurProject, CurRepo.name, "", "", 0))
    /\ DropStream
    /\ DeadLocals
    /\ NextRepo
    /\ Ended("placeholder", FALSE)
    /\ UNCHANGED << args, since_iso, out_dir, tenant_totals,
                    tenant_totals_code_only, projects, repos, cidx, changed,
                    created, result, exc, repo_csv, tenant_csv, console,
                    nrepos, requests, seen, wire, skip, server_commits, nitems >>

\* a slip: a repository without counted bytes leaves no row
EmitPlaceholder_Silent ==
    /\ StreamEnded
    /\ total_bytes = 0
    /\ per_repo_rows' = per_repo_rows
    /\ DropStream
    /\ DeadLocals
    /\ NextRepo
    /\ Ended("placeholder", FALSE)
    /\ UNCHANGED << args, since_iso, out_dir, tenant_totals,
                    tenant_totals_code_only, projects, repos, cidx, changed,
                    created, result, exc, repo_csv, tenant_csv, console,
                    nrepos, requests, seen, wire, skip, server_commits, nitems >>

\* lines 240-247
EmitPlaceholder ==
    /\ StreamEnded
    /\ total_bytes = 0
    /\ per_repo_rows' =
         Append(per_repo_rows,
                Row(CurProject, CurRepo.name, CurRepo.defaultBranch, "", 0))
    /\ DropStream
    /\ DeadLocals
    /\ NextRepo
    /\ Ended("placeholder", FALSE)
    /\ UNCHANGED << args, since_iso, out_dir, tenant_totals,
                    tenant_totals_code_only, projects, repos, cidx, changed,
                    created, result, exc, repo_csv, tenant_csv, console,
                    nrepos, requests, seen, wire, skip, server_commits, nitems >>

\* lines 248-259, the loop runs to its end
EmitRows ==
    /\ StreamEnded
    /\ total_bytes # 0
    /\ ~ EmitResult.raised
    /\ per_repo_rows' = EmitResult.rows
    /\ tenant_totals' = EmitResult.all
    /\ tenant_totals_code_only' = EmitResult.code
    /\ DropStream
    /\ DeadLocals
    /\ NextRepo
    /\ Ended("rows", FALSE)
    /\ UNCHANGED << args, since_iso, out_dir, projects, repos, cidx, changed,
                    created, result, exc, repo_csv, tenant_csv, console,
                    nrepos, requests, seen, wire, skip, server_commits, nitems >>

\* lines 248-258, the test of line 258 raises
EmitRowsRaise ==
    /\ StreamEnded
    /\ total_bytes # 0
    /\ EmitResult.raised
    /\ per_repo_rows' = EmitResult.rows
    /\ tenant_totals' = EmitResult.all
    /\ tenant_totals_code_only' = EmitResult.code
    /\ Raise("TypeError", "main")
    /\ Ended("raised", FALSE)
    /\ UNCHANGED << args, since_iso, out_dir, projects, pidx, repos, ridx,
                    commit_ids, cidx, changed, created, recent_paths,
                    lang_bytes, total_bytes, continuation, header, page,
                    fetched, result, repo_csv, tenant_csv, console, nrepos,
                    requests, streamed, seen, wire, skip, server_commits, nitems >>

(***************************************************************************)
(* Lines 261-284: the reports.                                             *)
(***************************************************************************)
\* sum(...) or 1
TotalOr1(c) == IF CounterSum(c) = 0 THEN 1 ELSE CounterSum(c)

\* lines 265-272; percent_all_files in hundredths
TenantRows(c) ==
    LET mc == most_common(c)
    IN  [i \in 1..Len(mc) |->
            [language |-> mc[i].lang, bytes |-> mc[i].n,
             percent_all_files |-> Percent(mc[i].n, TotalOr1(c))]]

\* lines 277-281; the percentage in hundredths
ConsoleLines(c) ==
    LET mc == most_common(c)
    IN  [i \in 1..Len(mc) |->
            [language |-> mc[i].lang, pct |-> Percent(mc[i].n, TotalOr1(c))]]

WriteReports ==
    /\ pc = "write"
    /\ pc' = "returned"
    /\ result' = 0
    /\ repo_csv' = per_repo_rows
    /\ tenant_csv' = TenantRows(tenant_totals)
    /\ console' = ConsoleLines(tenant_totals_code_only)
    /\ UNCHANGED << args, since_iso, out_dir, per_repo_rows, tenant_totals,
                    tenant_totals_code_only, projects, pidx, repos, ridx,
                    commit_ids, cidx, changed, created, recent_paths,
                    lang_bytes, total_bytes, continuation, header, page,
                    fetched, exc, nrepos, requests, streamed, seen, wire, skip, server_commits,
                    snap, hist, nitems >>

Next ==
    \/ StartConfigError
    \/ Start
    \/ ListProjectsOk
    \/ ListProjectsFail
    \/ ListReposOk
    \/ ListReposFail
    \/ RepoNoBranch
    \/ RepoBranch
    \/ ListCommitsOk
    \/ ListCommitsFail
    \/ ChangesFetchOk
    \/ ChangesFetchFail
    \/ FilesFetchOk
    \/ FilesFetchFail
    \/ FilesItem
    \/ EmitPlaceholder
    \/ EmitRows
    \/ EmitRowsRaise
    \/ WriteReports

Spec == Init /\ [][Next]_vars

(***************************************************************************)
(* list_changed_paths_for_commits on its own: main() is at line 218 for    *)
(* the only repository of the tenant, a threshold is set, list_commits     *)
(* returned one or more commits, and every change record received is kept  *)
(* in seen.                                                                *)
(***************************************************************************)
InitChanges ==
    /\ pc = "changes"
    /\ args \in {a \in ArgsSet : a.since_iso = SinceDate}
    /\ since_iso = SinceDate
    /\ out_dir = TRUE
    /\ per_repo_rows = <<>>
    /\ tenant_totals = EmptyCounter
    /\ tenant_totals_code_only = EmptyCounter
    /\ projects = <<1>> /\ pidx = 1
    /\ repos = <<[name |-> 1, defaultBranch |-> BranchRef]>> /\ ridx = 1
    /\ commit_ids \in {[i \in 1..n |-> i] : n \in 1..MaxCommits}
    /\ cidx = 1
    /\ changed = {} /\ created = {}
    /\ recent_paths = NoFilter
    /\ lang_bytes = EmptyCounter /\ total_bytes = 0
    /\ continuation = NoneTok /\ header = NoneTok /\ page = <<>> /\ fetched = 0
    /\ result = NoResult /\ exc = NoExc
    /\ repo_csv = NotWritten /\ tenant_csv = NotWritten /\ console = NotWritten
    /\ nrepos = 1 /\ nitems = 0
    /\ requests = {<<0, 0, "projects">>, <<1, 0, "repos">>, <<1, 1, "commits">>}
    /\ streamed = EmptyBag /\ seen = {}
    /\ wire = NoWire
    /\ skip = 0 /\ server_commits = <<>>
    /\ snap = [rows |-> <<>>, all |-> EmptyCounter, code |-> EmptyCounter]
    /\ hist = <<>>

ChangesFetchLogged ==
    \E resp \in ChangeResponses :
        /\ ChangesStep(resp)
        /\ requests' = requests \cup {<<CurProject, CurRepo.name, "changes">>}
        /\ seen' = seen \cup {resp[i] : i \in 1..Len(resp)}
        /\ UNCHANGED << wire, skip, server_commits >>

NextChanges == ChangesFetchLogged

SpecChanges == InitChanges /\ [][NextChanges]_vars

(***************************************************************************)
(* The rows and the reports on their own: main() is at line 240 for the    *)
(* only repository of the tenant, whose file listing has just ended after  *)
(* one page with one file per language, of 0..MaxFileBytes bytes each.     *)
(***************************************************************************)
\* a path of each language the listing holds
PathOfLang(L) ==
    CASE L = "Python" -> PathPy
      [] L = "Markdown" -> PathMd
      [] OTHER -> PathNoExt

ReportLangs == {LangOf(p) : p \in Paths}

\* the files of the listing, in listing order: distinct languages
ReportListings ==
    { fs \in SeqsUpTo([lang : ReportLangs, n : 0..MaxFileBytes], Cardinality(ReportLangs)) :
        /\ fs # <<>>
        /\ \A i, j \in 1..Len(fs) : i # j => fs[i].lang # fs[j].lang }

InitReport ==
    /\ pc = "files"
    /\ args \in {a \in ArgsSet : ~ Truthy(a.since_iso) /\ a.since_days = 0
                                  /\ Truthy(a.org_url) /\ Truthy(a.pat)}
    /\ since_iso = NoneV
    /\ out_dir = TRUE
    /\ per_repo_rows = <<>>
    /\ tenant_totals = EmptyCounter
    /\ tenant_totals_code_only = EmptyCounter
    /\ projects = <<1>> /\ pidx = 1
    /\ repos = <<[name |-> 1, defaultBranch |-> BranchRef]>> /\ ridx = 1
    /\ commit_ids = <<>> /\ cidx = 0
    /\ changed = {} /\ created = {}
    /\ recent_paths = NoFilter
    /\ \E fs \in ReportListings :
        /\ lang_bytes = fs
        /\ total_bytes = CounterSum(fs)
        /\ streamed = SetToBag({[path |-> PathOfLang(fs[i].lang), size |-> fs[i].n] :
                                  i \in 1..Len(fs)})
        /\ nitems = Len(fs)
    /\ continuation = NoneTok /\ header = NoneTok /\ page = <<>> /\ fetched = 1
    /\ result = NoResult /\ exc = NoExc
    /\ repo_csv = NotWritten /\ tenant_csv = NotWritten /\ console = NotWritten
    /\ nrepos = 1
    /\ requests = {<<0, 0, "projects">>, <<1, 0, "repos">>, <<1, 1, "items">>}
    /\ seen = {}
    /\ wire = NoWire
    /\ skip = 0 /\ server_commits = <<>>
    /\ snap = [rows |-> <<>>, all |-> EmptyCounter, code |-> EmptyCounter]
    /\ hist = <<>>

NextReport ==
    \/ EmitPlaceholder
    \/ EmitRows
    \/ EmitRowsRaise
    \/ WriteReports

SpecReport == InitReport /\ [][NextReport]_vars

(***************************************************************************)
(* list_commits request by request: main() is at line 215 for the only     *)
(* repository of the tenant, under a threshold; the server holds           *)
(* 0..MaxServerCommits matching commits and answers $top and $skip.  The   *)
(* list commits is kept in commit_ids; every request and its batch is kept *)
(* in wire.                                                                *)
(***************************************************************************)
InitCommits ==
    /\ pc = "commits"
    /\ args \in {a \in ArgsSet : a.since_iso = SinceDate}
    /\ since_iso = SinceDate
    /\ out_dir = TRUE
    /\ per_repo_rows = <<>>
    /\ tenant_totals = EmptyCounter
    /\ tenant_totals_code_only = EmptyCounter
    /\ projects = <<1>> /\ pidx = 1
    /\ repos = <<[name |-> 1, defaultBranch |-> BranchRef]>> /\ ridx = 1
    /\ commit_ids = <<>> /\ cidx = 0
    /\ changed = {} /\ created = {}
    /\ recent_paths = NoFilter
    /\ lang_bytes = EmptyCounter /\ total_bytes = 0
    /\ continuation = NoneTok /\ header = NoneTok /\ page = <<>> /\ fetched = 0
    /\ result = NoResult /\ exc = NoExc
    /\ repo_csv = NotWritten /\ tenant_csv = NotWritten /\ console = NotWritten
    /\ nrepos = 1 /\ nitems = 0
    /\ requests = {<<0, 0, "projects">>, <<1, 0, "repos">>}
    /\ streamed = EmptyBag /\ seen = {}
    /\ wire = NoWire
    /\ skip = 0
    /\ server_commits \in {[i \in 1..n |-> i] : n \in 0..MaxServerCommits}
    /\ snap = [rows |-> <<>>, all |-> EmptyCounter, code |-> EmptyCounter]
    /\ hist = <<>>

\* a slip: a full batch ends the loop as well
CommitsDone_OnFull(batch, top) == Len(batch) <= top

\* lines 111-115: the loop ends on an empty batch and on a short one
CommitsDone(batch, top) == batch = <<>> \/ Len(batch) < top

\* lines 105-116, one request; on the last one the return of line 117 and
\* lines 216-222 of main()
CommitsPage ==
    /\ pc = "commits"
    /\ LET batch == CommitsBatch(server_commits, CommitsTop, skip)
           commits == commit_ids \o batch
       IN  /\ wire' = [wire EXCEPT
                         !.sent = Append(@, [kind |-> "commits", top |-> CommitsTop,
                                             skip |-> skip]),
                         !.pages = Append(@, batch)]
           /\ commit_ids' = commits
           /\ IF CommitsDone(batch, CommitsTop)
              THEN /\ skip' = 0
                   /\ IF commits # <<>>
                      THEN /\ pc' = "changes"
                           /\ cidx' = 1
                           /\ changed' = {}
                           /\ created' = {}
                           /\ UNCHANGED << recent_paths, lang_bytes, total_bytes,
                                           streamed, continuation, header, page,
                                           fetched >>
                      ELSE /\ recent_paths' = FilterOf({})
                           /\ EnterFiles
                           /\ UNCHANGED << cidx, changed, created >>
              ELSE /\ skip' = skip + CommitsTop
                   /\ UNCHANGED << pc, cidx, changed, created, recent_paths,
                                   lang_bytes, total_bytes, streamed,
                                   continuation, header, page, fetched >>
    /\ requests' = requests \cup {<<CurProject, CurRepo.name, "commits">>}
    /\ UNCHANGED << args, since_iso, out_dir, per_repo_rows, tenant_totals,
                    tenant_totals_code_only, projects, pidx, repos, ridx,
                    result, exc, repo_csv, tenant_csv, console, nrepos, seen,
                    server_commits, snap, hist, nitems >>

NextCommits == CommitsPage

SpecCommits == InitCommits /\ [][NextCommits]_vars

(***************************************************************************)
(* One repository with a branch, request by request: main() is at line 198 *)
(* for the only repository of the tenant, under any valid configuration;   *)
(* the server holds 0..MaxCommits matching commits.  Every request is kept *)
(* in wire.sent, every batch of commits in wire.pages.                     *)
(***************************************************************************)
InitFilter ==
    /\ pc = "repo"
    /\ args \in {a \in ArgsSet : Truthy(a.org_url) /\ Truthy(a.pat)}
    /\ since_iso = ResolveSince
    /\ out_dir = TRUE
    /\ per_repo_rows = <<>>
    /\ tenant_totals = EmptyCounter
    /\ tenant_totals_code_only = EmptyCounter
    /\ projects = <<1>> /\ pidx = 1
    /\ repos = <<[name |-> 1, defaultBranch |-> BranchRef]>> /\ ridx = 1
    /\ commit_ids = <<>> /\ cidx = 0
    /\ changed = {} /\ created = {}
    /\ recent_paths = NoFilter
    /\ lang_bytes = EmptyCounter /\ total_bytes = 0
    /\ continuation = NoneTok /\ header = NoneTok /\ page = <<>> /\ fetched = 0
    /\ result = NoResult /\ exc = NoExc
    /\ repo_csv = NotWritten /\ tenant_csv = NotWritten /\ console = NotWritten
    /\ nrepos = 1 /\ nitems = 0
    /\ requests = {<<0, 0, "projects">>, <<1, 0, "repos">>}
    /\ streamed = EmptyBag /\ seen = {}
    /\ wire = NoWire
    /\ skip = 0
    /\ server_commits \in {[i \in 1..n |-> i] : n \in 0..MaxCommits}
    /\ snap = NoSnap
    /\ hist = <<>>

\* line 124 for commit_ids[cidx], answered
ChangesFetchTraced ==
    /\ \E resp \in ChangeResponses : ChangesStep(resp)
    /\ requests' = requests \cup {<<CurProject, CurRepo.name, "changes">>}
    /\ wire' = [wire EXCEPT
                  !.sent = Append(@, [kind |-> "changes", cid |-> commit_ids[cidx]])]
    /\ UNCHANGED << seen, skip, server_commits >>

\* line 70 for the tree listing, answered
FilesFetchTraced ==
    /\ \E items \in SeqsUpTo(RawItems, Min(MaxPageItems, MaxTenantItems - nitems)),
          tok \in Tokens :
        /\ fetched + 1 >= MaxPages => ~ TruthyTok(tok)
        /\ FilesFetchStep(items, tok)
    /\ wire' = [wire EXCEPT !.sent = Append(@, [kind |-> "items"])]
    /\ UNCHANGED << skip, server_commits >>

NextFilter ==
    \/ RepoBranch
    \/ CommitsPage
    \/ ListCommitsFail
    \/ ChangesFetchTraced
    \/ ChangesFetchFail
    \/ FilesFetchTraced
    \/ FilesFetchFail
    \/ FilesItem
    \/ EmitPlaceholder
    \/ EmitRows
    \/ EmitRowsRaise
    \/ WriteReports

SpecFilter == InitFilter /\ [][NextFilter]_vars

(***************************************************************************)
(* paged and its consumer on their own: main() is at line 228 for the only *)
(* repository of the tenant, without threshold; every request, response    *)
(* and yielded item of the listing is kept in wire.  The server answers    *)
(* with up to MaxPagedPages pages, the last one without token; the for of  *)
(* line 228 keeps asking for items.                                        *)
(***************************************************************************)
ItemPy == [isFolder |-> FALSE, gitObjectType |-> "blob", size |-> MaxSize, path |-> PathPy]
ItemMd == [isFolder |-> FALSE, gitObjectType |-> "blob", size |-> MaxSize, path |-> PathMd]
ItemFolder == [isFolder |-> TRUE, gitObjectType |-> "tree", size |-> NoneSize, path |-> PathNoExt]
PagedItems == {ItemPy, ItemMd, ItemFolder}

PagedTokens == Tokens \cup {Tok2}

InitPaged ==
    /\ pc = "files"
    /\ args = [org_url |-> OrgUrl, pat |-> "pat", since_iso |-> NoneV,
               since_days |-> 0, created_only |-> FALSE,
               exclude_non_code |-> FALSE]
    /\ since_iso = NoneV
    /\ out_dir = TRUE
    /\ per_repo_rows = <<>>
    /\ tenant_totals = EmptyCounter
    /\ tenant_totals_code_only = EmptyCounter
    /\ projects = <<1>> /\ pidx = 1
    /\ repos = <<[name |-> 1, defaultBranch |-> BranchRef]>> /\ ridx = 1
    /\ commit_ids = <<>> /\ cidx = 0
    /\ changed = {} /\ created = {}
    /\ recent_paths = NoFilter
    /\ lang_bytes = EmptyCounter /\ total_bytes = 0
    /\ continuation = NoneTok /\ header = NoneTok /\ page = <<>> /\ fetched = 0
    /\ result = NoResult /\ exc = NoExc
    /\ repo_csv = NotWritten /\ tenant_csv = NotWritten /\ console = NotWritten
    /\ nrepos = 1 /\ nitems = 0
    /\ requests = {<<0, 0, "projects">>, <<1, 0, "repos">>}
    /\ streamed = EmptyBag /\ seen = {}
    /\ wire = NoWire
    /\ skip = 0 /\ server_commits = <<>>
    /\ snap = [rows |-> <<>>, all |-> EmptyCounter, code |-> EmptyCounter]
    /\ hist = <<>>

\* the request as the server reads it, and its answer
PagedFetchLogged ==
    \E items \in SeqsUpTo(PagedItems, Min(MaxPagedPageItems, MaxPagedItems - nitems)),
       tok \in PagedTokens :
        /\ fetched + 1 >= MaxPagedPages => ~ TruthyTok(tok)
        /\ FilesFetchStep(items, tok)
        /\ wire' = [wire EXCEPT
                      !.sent = Append(@, ServerReads(ContinuationParam(continuation'))),
                      !.got = Append(@, tok),
                      !.pages = Append(@, items)]
        /\ UNCHANGED << skip, server_commits >>

\* line 73: paged yields the next item of the page
PagedItemLogged ==
    /\ FilesItemStep
    /\ wire' = [wire EXCEPT !.out = Append(@, Head(page))]
    /\ UNCHANGED << skip, server_commits >>

NextPaged ==
    \/ PagedFetchLogged
    \/ PagedItemLogged
    \/ FilesFetchFail
    \/ EmitPlaceholder
    \/ EmitRows
    \/ WriteReports

\* the for of line 228 asks paged for the next item of the page
TakeItem == pc = "files" /\ page # <<>> /\ page' = Tail(page)

\* the server answers every request, the loop of line 228 keeps asking and
\* main() runs on after it
SpecPaged ==
    /\ InitPaged
    /\ [][NextPaged]_vars
    /\ WF_fetched(PagedFetchLogged)
    /\ WF_page(TakeItem)
    /\ WF_pc(EmitPlaceholder \/ EmitRows \/ WriteReports)

(***************************************************************************)
(* Properties.                                                             *)
(***************************************************************************)
Languages == {e[2] : e \in EXT_TO_LANG} \cup {"Other"}

RECURSIVE RowSum(_, _)
\* the sum of bytes over the rows of language L
RowSum(rows, L) ==
    IF rows = <<>> THEN 0
    ELSE (IF rows[1].language = L THEN rows[1].bytes ELSE 0) + RowSum(Tail(rows), L)

RowsOf(rows, proj, repo) ==
    {i \in 1..Len(rows) : rows[i].project = proj /\ rows[i].repository = repo}

RECURSIVE BagBytesOf(_, _)
\* the sum of the sizes of the items of S, each as often as it is in bag b
BagBytesOf(S, b) ==
    IF S = {} THEN 0
    ELSE LET x == CHOOSE y \in S : TRUE
         IN  x.size * CopiesIn(x, b) + BagBytesOf(S \ {x}, b)

InFilter(fi) == recent_paths.none \/ fi.path \in recent_paths.set

\* C1: a non-success response to a listing call made while a repository is
\* processed (commits, changes of a commit, file tree) abandons only that
\* repository: it never leaves main() as an exception, so the traversal goes
\* on, the reports are written and main() returns 0.
C1_ListingFailureAbandonsOnlyRepository ==
    ~ ( /\ pc = "raised"
        /\ exc.type = "HTTPError"
        /\ exc.at \in {"list_commits", "list_changed_paths_for_commits", "list_files"} )

\* C2: a repository whose file listing failed, on whatever page, has no row
\* among the repo-level rows, and the step in which the listing fails
\* leaves the rows and both tenant tallies as they were when the repository
\* was started.
C2_FailedFileListingAddsNothing ==
    /\ [](\A i \in 1..Len(hist) :
            hist[i].outcome = "failed" =>
                RowsOf(per_repo_rows, hist[i].project, hist[i].repository) = {})
    /\ [][ (Len(hist') > Len(hist) /\ hist'[Len(hist')].outcome = "failed") =>
              /\ per_repo_rows' = snap.rows
              /\ tenant_totals' = snap.all
              /\ tenant_totals_code_only' = snap.code ]_vars

\* C2 happens: a listing failed on a later page, after a file was counted,
\* and the run went on to its end.
C2_Witness ==
    /\ pc = "returned"
    /\ \E i \in 1..Len(hist) :
        hist[i].outcome = "failed" /\ hist[i].later /\ hist[i].matched

\* C3: when main() has returned 0, for every language the bytes of the
\* repo-level rows of that language add up to the bytes of its tenant-level
\* rows, and every language of a repo-level language row has exactly one
\* tenant-level row.
C3_RepoRowsAddUpToTenantRow ==
    (pc = "returned" /\ result = 0) =>
        /\ \A L \in Languages :
            RowSum(repo_csv, L) = RowSum(tenant_csv, L)
        /\ \A i \in 1..Len(repo_csv) :
            repo_csv[i].language # "" =>
                Cardinality({j \in 1..Len(tenant_csv) :
                                tenant_csv[j].language = repo_csv[i].language}) = 1

\* C3 happens: two repositories have a row of the same language.
C3_Witness ==
    /\ pc = "returned" /\ result = 0
    /\ \E i, j \in 1..Len(repo_csv) :
        /\ i # j
        /\ repo_csv[i].language # ""
        /\ repo_csv[i].language = repo_csv[j].language
        /\ repo_csv[i].bytes > 0 /\ repo_csv[j].bytes > 0

\* C4: for a repository without default branch the iteration appends one
\* placeholder row (empty language, zero bytes), changes neither tenant
\* tally and sends no request; the repository ends with exactly that one
\* row and no commit, change or item request is ever sent for it.
C4_BranchlessRepositoryGetsPlaceholder ==
    /\ [][ (pc = "repo" /\ ~ Truthy(CurRepo.defaultBranch)) =>
              /\ per_repo_rows' =
                   Append(per_repo_rows, Row(CurProject, CurRepo.name, "", "", 0))
              /\ UNCHANGED << tenant_totals, tenant_totals_code_only, requests >> ]_vars
    /\ [](\A i \in 1..Len(hist) :
            hist[i].outcome = "nobranch" =>
                /\ Cardinality(RowsOf(per_repo_rows, hist[i].project,
                                      hist[i].repository)) = 1
                /\ \A k \in {"commits", "changes", "items"} :
                     <<hist[i].project, hist[i].repository, k>> \notin requests)

\* C4 happens: a branchless repository was met, after another repository
\* had added to the tenant tallies, and the run went on to its end.
C4_Witness ==
    /\ pc = "returned"
    /\ tenant_totals # EmptyCounter
    /\ \E i \in 2..Len(hist) : hist[i].outcome = "nobranch"

\* C5: when the file listing of a repository with a branch ends and no
\* streamed file passed the recency filter, the iteration appends one
\* placeholder row (empty language, zero bytes) and changes neither tenant
\* tally; the repository ends with exactly that one row.
C5_NoMatchingFileGetsPlaceholder ==
    /\ [][ (StreamEnded /\ CountedIn(streamed, recent_paths) = 0) =>
              /\ per_repo_rows' =
                   Append(per_repo_rows,
                          Row(CurProject, CurRepo.name, CurRepo.defaultBranch, "", 0))
              /\ UNCHANGED << tenant_totals, tenant_totals_code_only >> ]_vars
    /\ [](\A i \in 1..Len(hist) :
            (hist[i].outcome \in {"placeholder", "rows"} /\ ~ hist[i].matched) =>
                \E j \in 1..Len(per_repo_rows) :
                    /\ RowsOf(per_repo_rows, hist[i].project, hist[i].repository) = {j}
                    /\ per_repo_rows[j].language = ""
                    /\ per_repo_rows[j].bytes = 0)

\* C5 happens: a listing ended that yielded files, none of them in the
\* filter set.
C5_Witness ==
    \E i \in 1..Len(hist) :
        hist[i].outcome = "placeholder" /\ hist[i].listed /\ ~ hist[i].matched

\* C6: the run completes whether or not exclude_non_code is set, and at its
\* end the code-only tally is the all-languages tally, without Markdown and
\* CSV when exclude_non_code is set.
C6_CodeOnlyTallyLeavesOutNonCode ==
    /\ exc.type # "TypeError"
    /\ (pc = "returned" /\ result = 0) =>
          \A L \in Languages :
              CounterGet(tenant_totals_code_only, L) =
                  IF args.exclude_non_code /\ L \in NON_CODE_LANGS
                  THEN 0 ELSE CounterGet(tenant_totals, L)

\* the change kind of a record, as the claim reads it
ClaimKind(raw) ==
    CASE raw = "add" -> "add"
      [] raw = "Edit" -> "edit"
      [] raw = "rename" -> "rename"
      [] raw = "delete" -> "delete"
      [] OTHER -> "other"

HasPath(rec) == rec.path # NonePath /\ rec.path # <<>>

PathsOfKind(recs, kinds) ==
    {r.path : r \in {x \in recs : HasPath(x) /\ ClaimKind(x.changeType) \in kinds}}

\* C7: list_changed_paths_for_commits returns the paths of the add records
\* of all commits and, unless created_only, those of the edit and rename
\* records; other kinds and records without a path add nothing.
C7_ChangedPathsIsUnionOverCommits ==
    pc = "files" =>
        recent_paths =
            FilterOf(PathsOfKind(seen, {"add"})
                     \cup (IF args.created_only THEN {}
                           ELSE PathsOfKind(seen, {"edit", "rename"})))

\* C7 happens: under created_only one path was added and edited, another
\* only edited, a third record was a deletion; the result is the first path.
C7_Witness ==
    /\ pc = "files"
    /\ args.created_only
    /\ [changeType |-> "add", path |-> PathPy] \in seen
    /\ [changeType |-> "Edit", path |-> PathPy] \in seen
    /\ [changeType |-> "Edit", path |-> PathMd] \in seen
    /\ recent_paths = FilterOf({PathPy})

\* the commit listing of the current repository returned no commit
ZeroCommits ==
    /\ <<CurProject, CurRepo.name, "commits">> \in requests
    /\ <<CurProject, CurRepo.name, "changes">> \notin requests

\* C8: under a threshold, a repository whose commit listing is empty gets
\* the empty filter set, not None: nothing is counted for it, and it ends
\* without language row and without change of a tenant tally.  Without
\* threshold there is no filter and every file list_files yields is counted.
C8_EmptyCommitListingFiltersEverything ==
    /\ [](pc = "files" =>
            /\ (Truthy(since_iso) /\ ZeroCommits) =>
                  /\ recent_paths = FilterOf({})
                  /\ lang_bytes = EmptyCounter
                  /\ total_bytes = 0
            /\ ~ Truthy(since_iso) =>
                  /\ recent_paths.none
                  /\ total_bytes = BagBytesOf(BagToSet(streamed), streamed)
                  /\ \A fi \in BagToSet(streamed) :
                        LangOf(fi.path) \in CounterKeys(lang_bytes))
    /\ [][ (pc = "files" /\ Truthy(since_iso) /\ ZeroCommits) =>
              /\ UNCHANGED << tenant_totals, tenant_totals_code_only >>
              /\ \/ per_repo_rows' = per_repo_rows
                 \/ per_repo_rows' =
                      Append(per_repo_rows,
                             Row(CurProject, CurRepo.name, CurRepo.defaultBranch, "", 0)) ]_vars

\* C8 happens: under a threshold a repository with files and no commit
\* ended with the placeholder row.
C8_Witness ==
    \E i \in 1..Len(hist) :
        /\ hist[i].outcome = "placeholder" /\ hist[i].listed
        /\ <<hist[i].project, hist[i].repository, "commits">> \in requests
        /\ <<hist[i].project, hist[i].repository, "changes">> \notin requests

\* C9: when the file stream has ended, the tally of every language is the
\* sum of the sizes of the streamed files of that language that are in the
\* filter set (all of them without filter), and the repository total is the
\* sum over all languages: files outside the filter set change neither.
C9_TallyIsSumOfCountedFiles ==
    StreamEnded =>
        /\ \A L \in Languages :
            CounterGet(lang_bytes, L) =
                BagBytesOf({fi \in BagToSet(streamed) :
                               InFilter(fi) /\ LangOf(fi.path) = L}, streamed)
        /\ total_bytes =
                BagBytesOf({fi \in BagToSet(streamed) : InFilter(fi)}, streamed)

\* C9 happens: a stream ended in which one file with bytes was outside the
\* filter set and one with bytes inside.
C9_Witness ==
    /\ StreamEnded
    /\ ~ recent_paths.none
    /\ \E fi, fo \in BagToSet(streamed) :
        /\ fi.path \in recent_paths.set /\ fi.size > 0
        /\ fo.path \notin recent_paths.set /\ fo.size > 0

\* C10: every repo-level row with a language has bytes > 0.
C10_LanguageRowsHavePositiveBytes ==
    \A i \in 1..Len(per_repo_rows) :
        per_repo_rows[i].language # "" => per_repo_rows[i].bytes > 0

\* the languages of the rows of a report
RowLanguages(rows) == {rows[i].language : i \in 1..Len(rows)}

\* the rows of a report with bytes other than zero
NonzeroRows(rows) == SelectSeq(rows, LAMBDA r : r.bytes # 0)

\* C11: when main() has returned 0, the languages of the tenant-level rows
\* are exactly the languages of the repo-level rows with nonzero bytes: no
\* tenant row for a language whose bytes are zero everywhere, none missing.
C11_TenantLanguagesAreNonzeroRepoLanguages ==
    (pc = "returned" /\ result = 0) =>
        RowLanguages(tenant_csv) = RowLanguages(NonzeroRows(repo_csv))

\* the position of the first repo-level row of language L, 0 without one
FirstRowOf(rows, L) ==
    IF \E i \in 1..Len(rows) : rows[i].language = L
    THEN CHOOSE i \in 1..Len(rows) :
            /\ rows[i].language = L
            /\ \A j \in 1..(i - 1) : rows[j].language # L
    ELSE 0

\* C12: the tenant-level rows are in non-increasing order of bytes, and of
\* two languages with equal bytes the one whose first repo-level language
\* row was appended earlier (the one folded into the tally first) comes
\* first.
C12_TenantRowsDescendingStableTies ==
    (pc = "returned" /\ result = 0) =>
        \A i, j \in 1..Len(tenant_csv) :
            i < j =>
                /\ tenant_csv[i].bytes >= tenant_csv[j].bytes
                /\ tenant_csv[i].bytes = tenant_csv[j].bytes =>
                      FirstRowOf(repo_csv, tenant_csv[i].language)
                          < FirstRowOf(repo_csv, tenant_csv[j].language)

\* C12 happens: two languages tie with bytes, the one first met in a later
\* repository of the traversal second.
C12_Witness ==
    /\ pc = "returned" /\ result = 0
    /\ Len(tenant_csv) = 2
    /\ tenant_csv[1].bytes = tenant_csv[2].bytes
    /\ tenant_csv[1].bytes > 0
    /\ tenant_csv[1].language = "Python"
    /\ Len(hist) = 2 /\ hist[1].outcome = "rows" /\ hist[2].outcome = "rows"

RECURSIVE PercentSum(_)
\* the sum of percent_all_files over the rows, in hundredths
PercentSum(rows) ==
    IF rows = <<>> THEN 0 ELSE rows[1].percent_all_files + PercentSum(Tail(rows))

Abs(x) == IF x < 0 THEN 0 - x ELSE x

\* C13: when main() has returned 0 and the tenant report has a row, the
\* sum of the tenant tally (the divisor of line 271) is positive, and the
\* percent_all_files values add up to 100.00 give or take 0.005 per row:
\* in hundredths, twice the distance from 10000 is at most the row count.
C13_TenantPercentagesSumToHundred ==
    (pc = "returned" /\ result = 0 /\ Len(tenant_csv) > 0) =>
        /\ CounterSum(tenant_totals) > 0
        /\ TotalOr1(tenant_totals) = CounterSum(tenant_totals)
        /\ 2 * Abs(PercentSum(tenant_csv) - 10000) <= Len(tenant_csv)

\* C13 happens: three rows whose percentages are all rounded and do not
\* add up to 100.00 exactly.
C13_Witness ==
    /\ pc = "returned" /\ result = 0
    /\ Len(tenant_csv) = 3
    /\ PercentSum(tenant_csv) # 10000
    /\ \A i \in 1..3 :
          tenant_csv[i].percent_all_files * CounterSum(tenant_totals)
              # 10000 * tenant_csv[i].bytes

\* the organization URL or the credential is absent or empty
UrlOrCredentialMissing ==
    \/ args.org_url \in {NoneV, ""}
    \/ args.pat \in {NoneV, ""}

\* C14: with the organization URL or the credential missing, main() takes
\* one step, the return of status 2; no request is ever sent, the output
\* directory is never created and no report is ever written.
C14_MissingConfigReturnsTwoBeforeAnything ==
    /\ [](UrlOrCredentialMissing =>
            /\ pc \in {"start", "returned"}
            /\ pc = "returned" => result = 2
            /\ requests = {}
            /\ ~ out_dir
            /\ repo_csv = NotWritten /\ tenant_csv = NotWritten
            /\ console = NotWritten)
    /\ [][ (UrlOrCredentialMissing /\ pc = "start") =>
              (pc' = "returned" /\ result' = 2) ]_vars

\* C14 happens: the URL is given, only the credential is missing (empty),
\* and main() has returned.
C14_Witness ==
    /\ pc = "returned"
    /\ result = 2
    /\ args.org_url = OrgUrl
    /\ args.pat = ""

RECURSIVE Concat(_)
\* the items of a sequence of pages, in page order
Concat(pages) == IF pages = <<>> THEN <<>> ELSE pages[1] \o Concat(Tail(pages))

\* the listing of the only repository ended without error
ListingEnded ==
    \/ StreamEnded
    \/ Len(hist) = 1 /\ hist[1].outcome \in {"placeholder", "rows"}

\* C15: paged yields the items of the pages in page order, each once; the
\* first request carries no token and the server reads from request k+1
\* the token it sent with page k; no request follows a response without
\* (or with an empty) token, so a listing ends exactly after the first such
\* response, with all items yielded; and with a server that ends its
\* pages the listing ends and main() returns.
C15_PagedYieldsAllPagesInOrder ==
    /\ [](/\ Len(wire.out) <= Len(Concat(wire.pages))
          /\ wire.out = SubSeq(Concat(wire.pages), 1, Len(wire.out))
          /\ \A k \in 1..Len(wire.sent) :
                wire.sent[k] = IF k = 1 THEN NoneTok ELSE wire.got[k - 1]
          /\ \A k \in 1..(Len(wire.got) - 1) : TruthyTok(wire.got[k])
          /\ ListingEnded =>
                /\ wire.out = Concat(wire.pages)
                /\ wire.got # <<>>
                /\ ~ TruthyTok(wire.got[Len(wire.got)]))
    /\ <>(pc = "returned")

\* C15 happens: three pages, two different tokens with characters that
\* quote encodes, the last page with an empty token, three items yielded.
C15_Witness ==
    /\ pc = "returned"
    /\ hist[1].outcome = "rows"
    /\ wire.sent = <<NoneTok, Tok2, Tok1>>
    /\ wire.got = <<Tok2, Tok1, <<>> >>
    /\ wire.out = <<ItemMd, ItemFolder, ItemPy>>

RECURSIVE FileBytes(_)
\* the bytes of the items list_files lets through
FileBytes(items) ==
    IF items = <<>> THEN 0
    ELSE (IF IsFile(items[1]) THEN FileItem(items[1]).size ELSE 0)
         + FileBytes(Tail(items))

\* every item of the pages received so far was yielded and counted
AllReceivedCounted ==
    /\ wire.out = Concat(wire.pages)
    /\ total_bytes = FileBytes(Concat(wire.pages))

\* C16: a page is requested only when every item of the pages before was
\* yielded and counted; the items not yet yielded are all of the last page;
\* and a failed request is observed only when every item of the pages
\* before was counted.
C16_PagesArePulledNotPrefetched ==
    /\ [][ Len(wire.got') > Len(wire.got) => AllReceivedCounted ]_vars
    /\ [][ (Len(hist') > Len(hist) /\ hist'[Len(hist')].outcome = "failed") =>
              AllReceivedCounted ]_vars
    /\ [](wire.pages # <<>> =>
            Len(wire.out) >= Len(Concat(SubSeq(wire.pages, 1, Len(wire.pages) - 1))))

\* C16 happens: the request for the second page failed after a first page
\* of two files.
C16_Witness ==
    /\ Len(hist) = 1 /\ hist[1].outcome = "failed"
    /\ wire.pages = << <<ItemPy, ItemMd>> >>
    /\ wire.out = <<ItemPy, ItemMd>>

\* C17: list_commits asks for CommitsTop commits at the offsets 0,
\* CommitsTop, 2*CommitsTop, ...; every batch but the last is full and the
\* last is short or empty; it returns the N commits of the server in
\* order after N \div CommitsTop + 1 requests, without exception, and the
\* empty list when N = 0.
C17_ListCommitsPagesByOffset ==
    /\ \A k \in 1..Len(wire.sent) :
          wire.sent[k] = [kind |-> "commits", top |-> CommitsTop,
                          skip |-> (k - 1) * CommitsTop]
    /\ \A k \in 1..(Len(wire.pages) - 1) : Len(wire.pages[k]) = CommitsTop
    /\ exc = NoExc
    /\ pc # "commits" =>
          /\ commit_ids = server_commits
          /\ commit_ids = list_commits(server_commits)
          /\ Len(wire.pages[Len(wire.pages)]) < CommitsTop
          /\ Len(wire.sent) = Len(server_commits) \div CommitsTop + 1
          /\ Len(server_commits) = 0 => (commit_ids = <<>> /\ pc = "files")

\* C17 happens: the server holds a whole number of pages, so the last
\* request got the empty batch.
C17_Witness ==
    /\ pc = "changes"
    /\ Len(server_commits) = 2 * CommitsTop
    /\ Len(wire.sent) = 3
    /\ wire.pages[3] = <<>>
    /\ Len(commit_ids) = 2 * CommitsTop

\* the requests of one kind, in the order sent
SentOfKind(k) == SelectSeq(wire.sent, LAMBDA r : r.kind = k)

\* the position of the first tree request, 0 before it
FirstItemsRequest ==
    IF \E i \in 1..Len(wire.sent) : wire.sent[i].kind = "items"
    THEN CHOOSE i \in 1..Len(wire.sent) :
            /\ wire.sent[i].kind = "items"
            /\ \A j \in 1..(i - 1) : wire.sent[j].kind # "items"
    ELSE 0

\* C18: for a repository with a branch, under a threshold: once the first
\* tree request is sent, the commit listing was made (once, from offset
\* 0), the change requests were sent for the listed commit identifiers,
\* one each and in their order, and every request after it is a tree
\* request.  Without threshold no commit listing and no change request is
\* ever sent.
C18_FilterResolvedOnceBeforeFiles ==
    /\ (Truthy(since_iso) /\ FirstItemsRequest # 0) =>
          /\ Len(SentOfKind("commits")) = 1
          /\ wire.sent[1].kind = "commits"
          /\ [i \in 1..Len(SentOfKind("changes")) |-> SentOfKind("changes")[i].cid]
                = Concat(wire.pages)
          /\ Concat(wire.pages) = server_commits
          /\ \A i \in 1..Len(wire.sent) :
                i < FirstItemsRequest <=> wire.sent[i].kind # "items"
    /\ ~ Truthy(since_iso) =>
          /\ SentOfKind("commits") = <<>>
          /\ SentOfKind("changes") = <<>>
          /\ \A k \in {"commits", "changes"} :
                <<CurProject, CurRepo.name, k>> \notin requests

\* C18 happens: under a threshold two commits were listed, their changes
\* fetched, and then two pages of the tree.
C18_Witness ==
    /\ pc = "returned"
    /\ Truthy(since_iso)
    /\ Len(wire.sent) = 5
    /\ wire.sent[2] = [kind |-> "changes", cid |-> 1]
    /\ wire.sent[3] = [kind |-> "changes", cid |-> 2]
    /\ wire.sent[4].kind = "items" /\ wire.sent[5].kind = "items"

\* the row of the repository whose iteration is entry h of hist
RowOfEnded(h) ==
    per_repo_rows[CHOOSE i \in 1..Len(per_repo_rows) :
                     /\ per_repo_rows[i].project = h.project
                     /\ per_repo_rows[i].repository = h.repository]

\* the fields of a row other than project and repository
RowValues(r) == <<r.default_branch, r.language, r.bytes>>

\* C19 as stated: the placeholder row of a repository with a branch and a
\* zero total has the same default_branch, language and bytes as the
\* placeholder row of a branchless repository.
C19_PlaceholdersIndistinguishable ==
    \A i, j \in 1..Len(hist) :
        (hist[i].outcome = "nobranch" /\ hist[j].outcome = "placeholder") =>
            RowValues(RowOfEnded(hist[i])) = RowValues(RowOfEnded(hist[j]))

\* C19, amended: the two placeholder rows agree in language (empty) and
\* bytes (zero) and differ in default_branch, which is empty for the
\* branchless repository and the branch reference for the repository with
\* a branch and a zero total.
C19_PlaceholdersDifferInBranchOnly ==
    \A i \in 1..Len(hist) :
        /\ hist[i].outcome = "nobranch" =>
              RowValues(RowOfEnded(hist[i])) = <<"", "", 0>>
        /\ hist[i].outcome = "placeholder" =>
              /\ RowValues(RowOfEnded(hist[i])) = <<BranchRef, "", 0>>
              /\ RowOfEnded(hist[i]).default_branch # ""

\* C19 happens: a run ended with a branchless repository and a repository
\* with a branch and no counted bytes.
C19_Witness ==
    /\ pc = "returned" /\ result = 0
    /\ \E i, j \in 1..Len(hist) :
          hist[i].outcome = "nobranch" /\ hist[j].outcome = "placeholder"

\* the loops of lines 191 and 197 have run to their end
TraversalFinished ==
    /\ pidx = Len(projects)
    /\ \A p \in 1..Len(projects) : <<projects[p], 0, "repos">> \in requests
    /\ Len(hist) = nrepos
    /\ \A i \in 1..Len(hist) : hist[i].outcome # "raised"

\* C20: a report is written only in the step after the traversal of all
\* projects and repositories, both reports in that one step; in a run
\* that an exception leaves (a failed project or repository listing, or
\* any other uncaught failure) neither report is ever written.
C20_ReportsOnlyAfterWholeTraversal ==
    /\ []((repo_csv # NotWritten \/ tenant_csv # NotWritten) =>
            /\ repo_csv # NotWritten /\ tenant_csv # NotWritten
            /\ pc = "returned" /\ result = 0 /\ exc = NoExc
            /\ TraversalFinished
            /\ repo_csv = per_repo_rows)
    /\ [](pc = "raised" => (repo_csv = NotWritten /\ tenant_csv = NotWritten))
    /\ [][ (repo_csv' # repo_csv \/ tenant_csv' # tenant_csv) =>
              (pc = "write" /\ TraversalFinished) ]_vars

\* C20 happens: the repository listing of the second project failed after
\* the first project had left language rows; nothing is written.
C20_Witness ==
    /\ pc = "raised"
    /\ exc.at = "list_repos"
    /\ pidx = 2
    /\ \E i \in 1..Len(per_repo_rows) : per_repo_rows[i].bytes > 0
    /\ repo_csv = NotWritten /\ tenant_csv = NotWritten

====
